---------------------------- MODULE Spec2Model ----------------------------
(***************************************************************************)
(* Brocade: zero-width watermark codec, streaming injector and verifier    *)
(* (src/sec/watermark.py).  Characters are modelled by their Unicode       *)
(* codepoints, strings by sequences of codepoints.                         *)
(***************************************************************************)
EXTENDS Integers, Sequences, FiniteSets, TLC

VARIABLES
    watermark,      \* WatermarkInjector.watermark
    interval,       \* WatermarkInjector.interval
    watermark_idx,  \* WatermarkInjector.watermark_idx
    char_count,     \* WatermarkInjector.char_count
    raised,         \* exception raised by the last inject call, "none" if it returned
    fed,            \* history: concatenation of all fragments passed to inject
    emitted,        \* history: concatenation of all strings returned by inject
    lastFrag,       \* history: fragment of the last inject call
    lastOut,        \* history: return value of the last inject call
    prevIdx,        \* history: watermark_idx before the last inject call
    prevCount,      \* history: char_count before the last inject call
    inserted,       \* history: the marker characters inject appended, in order
    called,         \* history: whether inject was called
    cText,          \* codec pipeline: the payload string given to text_to_binary
    cBits,          \* codec pipeline: result of text_to_binary
    cMarkers,       \* codec pipeline: result of encode_watermark
    cScan,          \* codec pipeline: result of decode_watermark_from_text
    cBack,          \* codec pipeline: result of binary_to_text
    cpc,            \* codec pipeline: the stage reached
    genUser,        \* verification run: user_id given to generate_watermark_content
    genNow,         \* verification run: int(time.time()) read by it
    payload,        \* verification run: the payload string, as signed or as altered
    tampered,       \* verification run: whether a payload character was replaced
    extra,          \* verification run: number of marker characters appended
    vtext,          \* verification run: the text given to verify_watermark
    vres,           \* verification run: the dict verify_watermark returned
    vpc,            \* verification run: the stage reached
    vtext2,         \* second verification: the text given to verify_watermark
    vres2,          \* second verification: the dict verify_watermark returned
    streams         \* per response: its injector and the chunks of its stream

injVars == <<watermark, interval, watermark_idx, char_count, raised,
             fed, emitted, lastFrag, lastOut, prevIdx, prevCount,
             inserted, called>>

codecVars == <<cText, cBits, cMarkers, cScan, cBack, cpc>>

verVars == <<genUser, genNow, payload, tampered, extra, vtext, vres, vpc>>

againVars == <<vtext2, vres2>>

proxyVars == <<streams>>

vars == <<injVars, codecVars, verVars, againVars, proxyVars>>

-----------------------------------------------------------------------------
(* Bounds of the model *)

MaxMarkers == 2     \* longest marker sequence given to an injector
MaxInterval == 3    \* largest interval given to an injector
MaxFragLen == 2     \* longest fragment of one inject call
MaxText == 4        \* longest total text fed to one injector
MaxCodecText == 2   \* longest payload string sent through the codec
MaxBits == 9        \* longest bit string given to binary_to_text directly
MaxUserLen == 1     \* longest subject identifier signed
MaxRawLen == 4      \* longest text given to verify_watermark directly
MaxChunks == 3      \* most upstream chunks of one streamed response

-----------------------------------------------------------------------------
(* Characters *)

ZERO_WIDTH_ZERO == 8203
ZERO_WIDTH_ONE == 8204

\* str.isspace() of a single character: the codepoints Python treats as
\* whitespace.  The two marker codepoints are not among them.
IsSpace(c) ==
    c \in (9..13) \cup (28..32) \cup {133, 160, 5760} \cup (8192..8202)
          \cup {8232, 8233, 8239, 8287, 12288}

IsMarker(c) == c \in {ZERO_WIDTH_ZERO, ZERO_WIDTH_ONE}

\* Input characters the model feeds: 'a', space, and a marker codepoint
\* already present in the upstream text.
TextChars == {97, 32, ZERO_WIDTH_ZERO}

RECURSIVE SeqsUpTo(_, _)
SeqsUpTo(S, n) ==
    IF n = 0 THEN {<<>>}
    ELSE LET shorter == SeqsUpTo(S, n - 1)
         IN  shorter \cup {Append(s, c) : s \in {t \in shorter : Len(t) = n - 1}, c \in S}

Fragments == SeqsUpTo(TextChars, MaxFragLen)
MarkerSeqs == SeqsUpTo({ZERO_WIDTH_ZERO, ZERO_WIDTH_ONE}, MaxMarkers)
Intervals == (0 - 1)..MaxInterval

-----------------------------------------------------------------------------
(* Codec: text_to_binary, binary_to_text, encode_watermark,                *)
(* decode_watermark_from_text.  A bit string is a string of the characters *)
(* '0' (48) and '1' (49).                                                  *)

\* bin(n) without prefix: the binary digits of n >= 0, most significant first.
RECURSIVE BinDigits(_)
BinDigits(n) ==
    IF n < 2 THEN <<48 + n>> ELSE BinDigits(n \div 2) \o <<48 + (n % 2)>>

\* format(n, '08b'): the binary digits padded with '0' to at least 8.
Format08b(n) ==
    LET d == BinDigits(n)
    IN  IF Len(d) >= 8 THEN d ELSE [i \in 1..(8 - Len(d)) |-> 48] \o d

\* text_to_binary with format(n, 'b'): no padding to 8 digits.
RECURSIVE text_to_binary_unpadded(_)
text_to_binary_unpadded(text) ==
    IF text = <<>> THEN <<>>
    ELSE BinDigits(Head(text)) \o text_to_binary_unpadded(Tail(text))

RECURSIVE text_to_binary(_)
text_to_binary(text) ==
    IF text = <<>> THEN <<>>
    ELSE Format08b(Head(text)) \o text_to_binary(Tail(text))

\* int(chunk, 2) of a non-empty string of '0' and '1'.
RECURSIVE BinValue(_)
BinValue(chunk) ==
    IF chunk = <<>> THEN 0
    ELSE 2 * BinValue(SubSeq(chunk, 1, Len(chunk) - 1)) + (chunk[Len(chunk)] - 48)

\* binary_to_text of a string of '0' and '1': the slices binary[i:i+8] for
\* i = 0, 8, 16, ..., the last one of 1..8 characters, each turned into the
\* character of its value.
RECURSIVE binary_to_text(_)
binary_to_text(binary) ==
    IF binary = <<>> THEN <<>>
    ELSE LET k == IF Len(binary) < 8 THEN Len(binary) ELSE 8
         IN  <<BinValue(SubSeq(binary, 1, k))>>
                 \o binary_to_text(SubSeq(binary, k + 1, Len(binary)))

\* str.replace('0', ZERO_WIDTH_ZERO).replace('1', ZERO_WIDTH_ONE)
encode_watermark(binary_watermark) ==
    [i \in 1..Len(binary_watermark) |->
        IF binary_watermark[i] = 48 THEN ZERO_WIDTH_ZERO
        ELSE IF binary_watermark[i] = 49 THEN ZERO_WIDTH_ONE
        ELSE binary_watermark[i]]

\* decode_watermark_from_text recognising ZERO_WIDTH_ONE only.
decode_watermark_ones_only(text) ==
    LET found == SelectSeq(text, LAMBDA c : c = ZERO_WIDTH_ONE)
    IN  [i \in 1..Len(found) |-> 49]

\* decode_watermark_from_text reading the characters '0' and '1' as bits too.
decode_watermark_ascii_bits(text) ==
    LET found == SelectSeq(text, LAMBDA c : IsMarker(c) \/ c \in {48, 49})
    IN  [i \in 1..Len(found) |->
            IF found[i] \in {ZERO_WIDTH_ZERO, 48} THEN 48 ELSE 49]

\* The loop of decode_watermark_from_text: the marker characters of the text
\* in order, '0' for ZERO_WIDTH_ZERO and '1' for ZERO_WIDTH_ONE; every other
\* character is skipped.
decode_watermark_from_text(text) ==
    LET found == SelectSeq(text, IsMarker)
    IN  [i \in 1..Len(found) |-> IF found[i] = ZERO_WIDTH_ZERO THEN 48 ELSE 49]

\* Payload characters sent through the codec: NUL, 'A', U+00FF and U+0100.
CodecChars == {0, 65, 255, 256}
CodecTexts == SeqsUpTo(CodecChars, MaxCodecText)
BitStrings == SeqsUpTo({48, 49}, MaxBits)

\* The codec applied stage by stage to a payload string, or binary_to_text
\* applied to a bit string given directly (cpc starts at "scanned").
InitCodec ==
    /\ cBits = <<>>
    /\ cMarkers = <<>>
    /\ cBack = <<>>
    /\ \/ /\ cText \in CodecTexts
          /\ cScan = <<>>
          /\ cpc = "text"
       \/ /\ cText = <<>>
          /\ cScan \in BitStrings
          /\ cpc = "scanned"

CodecIdle ==
    /\ cText = <<>>
    /\ cBits = <<>>
    /\ cMarkers = <<>>
    /\ cScan = <<>>
    /\ cBack = <<>>
    /\ cpc = "idle"

TextToBinary ==
    /\ cpc = "text"
    /\ cBits' = text_to_binary(cText)
    /\ cpc' = "bits"
    /\ UNCHANGED <<cText, cMarkers, cScan, cBack>>
    /\ UNCHANGED <<injVars, verVars, againVars, proxyVars>>

EncodeWatermark ==
    /\ cpc = "bits"
    /\ cMarkers' = encode_watermark(cBits)
    /\ cpc' = "markers"
    /\ UNCHANGED <<cText, cBits, cScan, cBack>>
    /\ UNCHANGED <<injVars, verVars, againVars, proxyVars>>

DecodeFromText ==
    /\ cpc = "markers"
    /\ cScan' = decode_watermark_from_text(cMarkers)
    /\ cpc' = "decoded"
    /\ UNCHANGED <<cText, cBits, cMarkers, cBack>>
    /\ UNCHANGED <<injVars, verVars, againVars, proxyVars>>

BinaryToText ==
    /\ cpc \in {"decoded", "scanned"}
    /\ cBack' = binary_to_text(cScan)
    /\ cpc' = IF cpc = "decoded" THEN "back" ELSE "converted"
    /\ UNCHANGED <<cText, cBits, cMarkers, cScan>>
    /\ UNCHANGED <<injVars, verVars, againVars, proxyVars>>

-----------------------------------------------------------------------------
(* hashlib.sha256: SHA-256 (FIPS 180-4) over a sequence of bytes.  A 32-bit *)
(* word is the pair <<high 16 bits, low 16 bits>>.                          *)

RECURSIVE AndBits(_, _, _)
AndBits(x, y, n) ==
    IF n = 0 THEN 0
    ELSE (x % 2) * (y % 2) + 2 * AndBits(x \div 2, y \div 2, n - 1)

\* Bitwise and of the 4-bit values p \div 16 and p % 16, tabulated.
And4 == [p \in 0..255 |-> AndBits(p \div 16, p % 16, 4)]

\* Bitwise and, exclusive or of 16-bit values.
And16(x, y) ==
    And4[(x % 16) * 16 + (y % 16)]
    + 16 * And4[((x \div 16) % 16) * 16 + ((y \div 16) % 16)]
    + 256 * And4[((x \div 256) % 16) * 16 + ((y \div 256) % 16)]
    + 4096 * And4[(x \div 4096) * 16 + (y \div 4096)]

Xor16(x, y) == x + y - 2 * And16(x, y)

WAnd(a, b) == <<And16(a[1], b[1]), And16(a[2], b[2])>>
WXor(a, b) == <<Xor16(a[1], b[1]), Xor16(a[2], b[2])>>
WNot(a) == <<65535 - a[1], 65535 - a[2]>>
WAdd(a, b) ==
    LET lo == a[2] + b[2]
        hi == a[1] + b[1] + (lo \div 65536)
    IN  <<hi % 65536, lo % 65536>>

\* Rotation and shift to the right by n < 16 bits.
RotrLow(a, n) ==
    LET p == 2 ^ n
        q == 2 ^ (16 - n)
    IN  <<(a[1] \div p) + (a[2] % p) * q, (a[2] \div p) + (a[1] % p) * q>>
Rotr(a, n) == IF n >= 16 THEN RotrLow(<<a[2], a[1]>>, n - 16) ELSE RotrLow(a, n)
Shr(a, n) ==
    LET p == 2 ^ n
        q == 2 ^ (16 - n)
    IN  <<a[1] \div p, (a[2] \div p) + (a[1] % p) * q>>

Sha256K ==
   <<
      <<17034, 12184>>, <<28983, 17553>>, <<46528, 64463>>, <<59829, 56229>>,
      <<14678, 49755>>, <<23025, 4593>>, <<37439, 33444>>, <<43804, 24277>>,
      <<55303, 43672>>, <<4739, 23297>>, <<9265, 34238>>, <<21772, 32195>>,
      <<29374, 23924>>, <<32990, 45566>>, <<39900, 1703>>, <<49563, 61812>>,
      <<58523, 27073>>, <<61374, 18310>>, <<4033, 40390>>, <<9228, 41420>>,
      <<11753, 11375>>, <<19060, 33962>>, <<23728, 43484>>, <<30457, 35034>>,
      <<38974, 20818>>, <<43057, 50797>>, <<45059, 10184>>, <<48985, 32711>>,
      <<50912, 3059>>, <<54695, 37191>>, <<1738, 25425>>, <<5161, 10599>>,
      <<10167, 2693>>, <<11803, 8504>>, <<19756, 28156>>, <<21304, 3347>>,
      <<25866, 29524>>, <<30314, 2747>>, <<33218, 51502>>, <<37490, 11397>>,
      <<41663, 59553>>, <<43034, 26187>>, <<49739, 35696>>, <<51052, 20899>>,
      <<53650, 59417>>, <<54937, 1572>>, <<62478, 13701>>, <<4202, 41072>>,
      <<6564, 49430>>, <<7735, 27656>>, <<10056, 30540>>, <<13488, 48309>>,
      <<14620, 3251>>, <<20184, 43594>>, <<23452, 51791>>, <<26670, 28659>>,
      <<29839, 33518>>, <<30885, 25455>>, <<33992, 30740>>, <<36039, 520>>,
      <<37054, 65530>>, <<42064, 27883>>, <<48889, 41975>>, <<50801, 30962>> >>

Sha256H0 ==
   <<
      <<27145, 58983>>, <<47975, 44677>>, <<15470, 62322>>, <<42319, 62778>>,
      <<20750, 21119>>, <<39685, 26764>>, <<8067, 55723>>, <<23520, 52505>> >>

SmallSigma0(x) == WXor(WXor(Rotr(x, 7), Rotr(x, 18)), Shr(x, 3))
SmallSigma1(x) == WXor(WXor(Rotr(x, 17), Rotr(x, 19)), Shr(x, 10))
BigSigma0(x) == WXor(WXor(Rotr(x, 2), Rotr(x, 13)), Rotr(x, 22))
BigSigma1(x) == WXor(WXor(Rotr(x, 6), Rotr(x, 11)), Rotr(x, 25))
ShaCh(x, y, z) == WXor(WAnd(x, y), WAnd(WNot(x), z))
ShaMaj(x, y, z) == WXor(WXor(WAnd(x, y), WAnd(x, z)), WAnd(y, z))

\* The message schedule: the 16 words of the block extended to 64 words.
RECURSIVE ShaSchedule(_)
ShaSchedule(w) ==
    IF Len(w) >= 64 THEN w
    ELSE LET t == Len(w) + 1
         IN  ShaSchedule(
                 Append(w, WAdd(WAdd(SmallSigma1(w[t - 2]), w[t - 7]),
                                WAdd(SmallSigma0(w[t - 15]), w[t - 16]))))

\* Round rs.t on the working variables rs.v = <<a, b, c, d, e, f, g, h>>.
ShaRound(rs, w) ==
    LET st == rs.v
        t1 == WAdd(WAdd(WAdd(st[8], BigSigma1(st[5])),
                        WAdd(ShaCh(st[5], st[6], st[7]), Sha256K[rs.t])),
                   w[rs.t])
        t2 == WAdd(BigSigma0(st[1]), ShaMaj(st[1], st[2], st[3]))
    IN  [t |-> rs.t + 1,
         v |-> <<WAdd(t1, t2), st[1], st[2], st[3],
                 WAdd(st[4], t1), st[5], st[6], st[7]>>]

RECURSIVE ShaRounds(_, _)
ShaRounds(rs, w) ==
    IF rs.t > 64 THEN rs.v ELSE ShaRounds(ShaRound(rs, w), w)

\* One 64-byte block folded into the hash value h.
ShaCompress(h, block) ==
    LET w16 == [i \in 1..16 |->
                   <<block[4 * i - 3] * 256 + block[4 * i - 2],
                     block[4 * i - 1] * 256 + block[4 * i]>>]
        w == ShaSchedule(w16)
        st == ShaRounds([t |-> 1, v |-> h], w)
    IN  [i \in 1..8 |-> WAdd(h[i], st[i])]

\* Padding: a 1 bit, zeros up to 56 mod 64 bytes, the bit length in 64 bits
\* (messages below 2^13 bytes: the upper six length bytes are zero).
ShaPad(msg) ==
    LET n == Len(msg)
        z == (55 - n) % 64
    IN  msg \o <<128>> \o [i \in 1..(z + 6) |-> 0]
            \o <<(n * 8) \div 256, (n * 8) % 256>>

RECURSIVE ShaBlocks(_, _)
ShaBlocks(h, padded) ==
    IF padded = <<>> THEN h
    ELSE ShaBlocks(ShaCompress(h, SubSeq(padded, 1, 64)),
                   SubSeq(padded, 65, Len(padded)))

Sha256(msg) == ShaBlocks(Sha256H0, ShaPad(msg))

HexDigit(n) == IF n < 10 THEN 48 + n ELSE 87 + n
Hex16(x) == <<HexDigit(x \div 4096), HexDigit((x \div 256) % 16),
              HexDigit((x \div 16) % 16), HexDigit(x % 16)>>

\* hashlib.sha256(msg).hexdigest()[:8]
Sha256Hex8(msg) ==
    LET h == Sha256(msg) IN Hex16(h[1][1]) \o Hex16(h[1][2])

-----------------------------------------------------------------------------
(* Signer: generate_watermark_content *)

\* str.encode(): the UTF-8 bytes of a string of codepoints below 65536 that
\* are no surrogates.
RECURSIVE Utf8(_)
Utf8(text) ==
    IF text = <<>> THEN <<>>
    ELSE LET c == Head(text)
         IN  (IF c < 128 THEN <<c>>
              ELSE IF c < 2048 THEN <<192 + (c \div 64), 128 + (c % 64)>>
              ELSE <<224 + (c \div 4096), 128 + ((c \div 64) % 64), 128 + (c % 64)>>)
             \o Utf8(Tail(text))

\* str(n) of an integer n >= 0.
RECURSIVE DecStr(_)
DecStr(n) ==
    IF n < 10 THEN <<48 + n>> ELSE DecStr(n \div 10) \o <<48 + (n % 10)>>

\* The signature with the subject identifier left out of the hashed string.
SignatureTimestampOnly(timestamp_str, user_id) ==
    Sha256Hex8(Utf8(timestamp_str))

\* hashlib.sha256(f"{timestamp}|{user_id}".encode()).hexdigest()[:8]
Signature(timestamp_str, user_id) ==
    Sha256Hex8(Utf8(timestamp_str \o <<124>> \o user_id))

\* generate_watermark_content hashing one byte per character (Latin-1)
\* instead of the UTF-8 bytes.
generate_watermark_content_latin1(user_id, now) ==
    LET timestamp == DecStr(now)
    IN  timestamp \o <<124>> \o user_id \o <<124>>
            \o Sha256Hex8(timestamp \o <<124>> \o user_id)

\* generate_watermark_content(user_id) when int(time.time()) is now.
generate_watermark_content(user_id, now) ==
    LET timestamp == DecStr(now)
    IN  timestamp \o <<124>> \o user_id \o <<124>> \o Signature(timestamp, user_id)

-----------------------------------------------------------------------------
(* WatermarkInjector *)

\* Python's a % b for b # 0: the result takes the sign of the divisor.
PyMod(a, b) == IF b > 0 THEN a % b ELSE 0 - ((0 - a) % (0 - b))

\* InjectChar with the marker written in place of the character it follows.
InjectCharMarkerReplaces(wm, iv, s, c) ==
    LET cc == IF ~IsSpace(c) THEN s.char_count + 1 ELSE s.char_count
    IN  IF iv = 0
        THEN [s EXCEPT !.char_count = cc, !.raised = "ZeroDivisionError"]
        ELSE IF PyMod(cc, iv) = 0 /\ cc > 0 /\ s.watermark_idx < Len(wm)
             THEN [s EXCEPT !.out = Append(s.out, wm[s.watermark_idx + 1]),
                            !.ins = Append(s.ins, wm[s.watermark_idx + 1]),
                            !.char_count = cc,
                            !.watermark_idx = s.watermark_idx + 1]
             ELSE [s EXCEPT !.out = Append(s.out, c), !.char_count = cc]

\* One iteration of the loop of inject over the injector wm/iv and the running
\* record s = [out, char_count, watermark_idx, raised]; s.ins records the
\* marker characters appended so far.
InjectChar(wm, iv, s, c) ==
    LET cc == IF ~IsSpace(c) THEN s.char_count + 1 ELSE s.char_count
        o1 == Append(s.out, c)
    IN  IF iv = 0
        THEN [s EXCEPT !.char_count = cc, !.raised = "ZeroDivisionError"]
        ELSE IF PyMod(cc, iv) = 0 /\ cc > 0 /\ s.watermark_idx < Len(wm)
             THEN [s EXCEPT !.out = Append(o1, wm[s.watermark_idx + 1]),
                            !.ins = Append(s.ins, wm[s.watermark_idx + 1]),
                            !.char_count = cc,
                            !.watermark_idx = s.watermark_idx + 1]
             ELSE [s EXCEPT !.out = o1, !.char_count = cc]

\* The loop of inject: the characters of text_chunk in order, stopping at the
\* first one that raises.
RECURSIVE InjectLoop(_, _, _, _)
InjectLoop(wm, iv, s, chunk) ==
    IF chunk = <<>> \/ s.raised # "none" THEN s
    ELSE InjectLoop(wm, iv, InjectChar(wm, iv, s, Head(chunk)), Tail(chunk))

\* inject counting the visible characters of each call from zero.
InjectResultPerCallCount(wm, iv, count, idx, chunk) ==
    LET r == InjectLoop(wm, iv,
                        [out |-> <<>>, char_count |-> 0, watermark_idx |-> idx,
                         raised |-> "none", ins |-> <<>>],
                        chunk)
    IN  [r EXCEPT !.char_count = count + r.char_count]

\* WatermarkInjector.inject on an injector with fields wm, iv, count, idx.
InjectResult(wm, iv, count, idx, chunk) ==
    InjectLoop(wm, iv,
               [out |-> <<>>, char_count |-> count, watermark_idx |-> idx,
                raised |-> "none", ins |-> <<>>],
               chunk)

\* WatermarkInjector.__init__: the fields are stored as given.
NewInjector(wm, iv) ==
    /\ watermark = wm
    /\ interval = iv
    /\ watermark_idx = 0
    /\ char_count = 0

InitInjector ==
    /\ \E wm \in MarkerSeqs, iv \in Intervals : NewInjector(wm, iv)
    /\ raised = "none"
    /\ fed = <<>>
    /\ emitted = <<>>
    /\ lastFrag = <<>>
    /\ lastOut = <<>>
    /\ inserted = <<>>
    /\ prevIdx = 0
    /\ prevCount = 0
    /\ called = FALSE

InjectorIdle ==
    /\ NewInjector(<<>>, 5)
    /\ raised = "none"
    /\ fed = <<>>
    /\ emitted = <<>>
    /\ lastFrag = <<>>
    /\ lastOut = <<>>
    /\ inserted = <<>>
    /\ prevIdx = 0
    /\ prevCount = 0
    /\ called = FALSE

\* One call injector.inject(frag).  A call that raises returns nothing; the
\* counter it already advanced stays advanced.
Inject(frag) ==
    /\ Len(fed) + Len(frag) <= MaxText
    /\ LET r == InjectResult(watermark, interval, char_count, watermark_idx, frag)
       IN  /\ char_count' = r.char_count
           /\ watermark_idx' = r.watermark_idx
           /\ raised' = r.raised
           /\ lastOut' = IF r.raised = "none" THEN r.out ELSE <<>>
           /\ emitted' = IF r.raised = "none" THEN emitted \o r.out ELSE emitted
           /\ inserted' = IF r.raised = "none" THEN inserted \o r.ins ELSE inserted
    /\ fed' = fed \o frag
    /\ lastFrag' = frag
    /\ prevIdx' = watermark_idx
    /\ prevCount' = char_count
    /\ called' = TRUE
    /\ UNCHANGED <<watermark, interval>>
    /\ UNCHANGED <<codecVars, verVars, againVars, proxyVars>>

-----------------------------------------------------------------------------
(* Verifier: verify_watermark *)

\* str.split(sep) for a one-character separator.
RECURSIVE Split(_, _)
Split(text, sep) ==
    IF \A i \in 1..Len(text) : text[i] # sep THEN <<text>>
    ELSE LET i == CHOOSE k \in 1..Len(text) :
                      text[k] = sep /\ \A m \in 1..(k - 1) : text[m] # sep
         IN  <<SubSeq(text, 1, i - 1)>> \o Split(SubSeq(text, i + 1, Len(text)), sep)

IsDigit(c) == c \in 48..57

RECURSIVE StripLeft(_)
StripLeft(text) ==
    IF text # <<>> /\ IsSpace(Head(text)) THEN StripLeft(Tail(text)) ELSE text

RECURSIVE StripRight(_)
StripRight(text) ==
    IF text # <<>> /\ IsSpace(text[Len(text)])
    THEN StripRight(SubSeq(text, 1, Len(text) - 1))
    ELSE text

\* Value of a string of digits and underscores, the underscores skipped.
RECURSIVE DigitsValue(_)
DigitsValue(text) ==
    IF text = <<>> THEN 0
    ELSE LET init == SubSeq(text, 1, Len(text) - 1)
             last == text[Len(text)]
         IN  IF last = 95 THEN DigitsValue(init)
             ELSE 10 * DigitsValue(init) + (last - 48)

\* int(text) for a string of codepoints below 256: surrounding whitespace is
\* dropped, one sign is allowed, then digits, single underscores allowed
\* between digits.  ok = FALSE stands for ValueError.
PyInt(text) ==
    LET t == StripRight(StripLeft(text))
        signed == t # <<>> /\ t[1] \in {43, 45}
        d == IF signed THEN Tail(t) ELSE t
        ok == /\ d # <<>>
              /\ IsDigit(d[1])
              /\ IsDigit(d[Len(d)])
              /\ \A i \in 1..Len(d) : IsDigit(d[i]) \/ d[i] = 95
              /\ \A i \in 1..(Len(d) - 1) : ~(d[i] = 95 /\ d[i + 1] = 95)
    IN  [ok |-> ok,
         value |-> IF ~ok THEN 0
                   ELSE IF signed /\ t[1] = 45 THEN 0 - DigitsValue(d)
                   ELSE DigitsValue(d)]

\* The try block with a timestamp field int() rejects read as 0 instead of
\* raising.
VerifyTryTimestampDefault(binary_data) ==
    LET decoded_text == binary_to_text(binary_data)
        parts == Split(decoded_text, 124)
    IN  IF Len(parts) # 3
        THEN [valid |-> FALSE, reason |-> "Invalid watermark format."]
        ELSE IF parts[3] = Signature(parts[1], parts[2])
        THEN [valid |-> TRUE, timestamp |-> PyInt(parts[1]).value,
              user_id |-> parts[2]]
        ELSE [valid |-> FALSE, reason |-> "Signature mismatch.",
              data |-> [timestamp |-> PyInt(parts[1]).value,
                        user_id |-> parts[2], signature |-> parts[3]]]

\* The try block with the fields unpacked and the timestamp parsed before the
\* number of fields is tested; unpacking fewer or more than three fields
\* raises ValueError.
VerifyTryParseFirst(binary_data) ==
    LET decoded_text == binary_to_text(binary_data)
        parts == Split(decoded_text, 124)
    IN  IF Len(parts) # 3 \/ ~PyInt(parts[1]).ok
        THEN [raise |-> "ValueError"]
        ELSE IF parts[3] = Signature(parts[1], parts[2])
        THEN [valid |-> TRUE, timestamp |-> PyInt(parts[1]).value,
              user_id |-> parts[2]]
        ELSE [valid |-> FALSE, reason |-> "Signature mismatch.",
              data |-> [timestamp |-> PyInt(parts[1]).value,
                        user_id |-> parts[2], signature |-> parts[3]]]

\* The try block of verify_watermark; [raise |-> e] stands for the exception
\* e leaving the block.
VerifyTry(binary_data) ==
    LET decoded_text == binary_to_text(binary_data)
        parts == Split(decoded_text, 124)
    IN  IF Len(parts) # 3
        THEN [valid |-> FALSE, reason |-> "Invalid watermark format."]
        ELSE LET timestamp_str == parts[1]
                 user_id == parts[2]
                 signature == parts[3]
                 expected_signature == Signature(timestamp_str, user_id)
                 timestamp == PyInt(timestamp_str)
             IN  IF signature = expected_signature
                 THEN IF timestamp.ok
                      THEN [valid |-> TRUE, timestamp |-> timestamp.value,
                            user_id |-> user_id]
                      ELSE [raise |-> "ValueError"]
                 ELSE IF timestamp.ok
                      THEN [valid |-> FALSE, reason |-> "Signature mismatch.",
                            data |-> [timestamp |-> timestamp.value,
                                      user_id |-> user_id,
                                      signature |-> signature]]
                      ELSE [raise |-> "ValueError"]

\* verify_watermark without its except clause.
verify_watermark_uncaught(text_with_watermark) ==
    LET binary_data == decode_watermark_from_text(text_with_watermark)
    IN  IF binary_data = <<>>
        THEN [valid |-> FALSE, reason |-> "No watermark found."]
        ELSE VerifyTry(binary_data)

verify_watermark(text_with_watermark) ==
    LET binary_data == decode_watermark_from_text(text_with_watermark)
    IN  IF binary_data = <<>>
        THEN [valid |-> FALSE, reason |-> "No watermark found."]
        ELSE LET r == VerifyTry(binary_data)
             IN  IF "raise" \in DOMAIN r
                 THEN [valid |-> FALSE, reason |-> "Decoding error: ValueError"]
                 ELSE r

\* The calls verify_watermark makes on a text, in the order it makes them:
\* it returns after decode_watermark_from_text when no bit was found, after
\* split when the fields are not three, and otherwise goes on to sha256 and
\* int.
VerifyCalls(text_with_watermark) ==
    LET binary_data == decode_watermark_from_text(text_with_watermark)
    IN  <<"decode_watermark_from_text">> \o
        (IF binary_data = <<>> THEN <<>>
         ELSE <<"binary_to_text", "split">> \o
              (IF Len(Split(binary_to_text(binary_data), 124)) # 3 THEN <<>>
               ELSE <<"sha256", "int">>))

\* The variant of VerificationResult a returned dict stands for; "Raised" for
\* an exception that left verify_watermark.
Outcome(r) ==
    IF "raise" \in DOMAIN r THEN "Raised"
    ELSE IF r.valid THEN "Valid"
    ELSE IF r.reason = "No watermark found." THEN "NotFound"
    ELSE IF r.reason = "Invalid watermark format." THEN "InvalidFormat"
    ELSE IF r.reason = "Signature mismatch." THEN "SignatureMismatch"
    ELSE "DecodeError"

\* Inputs of the verification runs.
\* Subject identifiers: strings of 'a', '|' and U+00E9.
Users == SeqsUpTo({97, 124, 233}, MaxUserLen)
Times == {7, 17}
\* Replacement characters: '1', '7', 'a', '|', space, '+', U+00E9, U+0100.
TamperChars == {49, 55, 97, 124, 32, 43, 233, 256}
\* Positions of a payload that can lie in its timestamp or subject field.
TamperPositions ==
    UNION {1..(Len(DecStr(now)) + 1 + MaxUserLen) : now \in Times}
RawTexts == SeqsUpTo({ZERO_WIDTH_ZERO, ZERO_WIDTH_ONE, 97}, MaxRawLen)
\* Timestamp strings of client-built payloads: 'a', '', ' 7', '7.5', '+7'.
TimestampStrings == {<<97>>, <<>>, <<32, 55>>, <<55, 46, 53>>, <<43, 55>>}

\* The fields of the payload as signed, located by the lengths signed.
TsLen == Len(DecStr(genNow))
TsField == SubSeq(payload, 1, TsLen)
UidField == SubSeq(payload, TsLen + 2, TsLen + 1 + Len(genUser))
SigField == SubSeq(payload, TsLen + Len(genUser) + 3, Len(payload))

\* The marker sequence placed inside marker-free text.
Embed(markers) ==
    LET h == Len(markers) \div 2
    IN  <<72, 105, 32>> \o SubSeq(markers, 1, h) \o <<33>>
            \o SubSeq(markers, h + 1, Len(markers))

InitVerify ==
    /\ genUser = <<>>
    /\ genNow = 0
    /\ payload = <<>>
    /\ tampered = FALSE
    /\ extra = 0
    /\ vtext = <<>>
    /\ vres = [valid |-> FALSE, reason |-> "not called"]
    /\ vpc = "idle"

\* chat_completions_proxy, step 3: the payload is built for user_id.
Generate(user_id, now) ==
    /\ vpc = "idle"
    /\ genUser' = user_id
    /\ genNow' = now
    /\ payload' = generate_watermark_content(user_id, now)
    /\ vpc' = "signed"
    /\ UNCHANGED <<tampered, extra, vtext, vres>>
    /\ UNCHANGED <<injVars, codecVars, againVars, proxyVars>>

\* One character of the timestamp or subject field is replaced by another.
Tamper(i, c) ==
    /\ vpc = "signed"
    /\ ~tampered
    /\ i \in (1..TsLen) \cup ((TsLen + 2)..(TsLen + 1 + Len(genUser)))
    /\ c # payload[i]
    /\ payload' = [payload EXCEPT ![i] = c]
    /\ tampered' = TRUE
    /\ UNCHANGED <<genUser, genNow, extra, vtext, vres, vpc>>
    /\ UNCHANGED <<injVars, codecVars, againVars, proxyVars>>

\* The payload is encoded and the marker sequence placed in a text.
EncodeAndEmbed ==
    /\ vpc = "signed"
    /\ vtext' = Embed(encode_watermark(text_to_binary(payload)))
    /\ vpc' = "embedded"
    /\ UNCHANGED <<genUser, genNow, payload, tampered, extra, vres>>
    /\ UNCHANGED <<injVars, codecVars, againVars, proxyVars>>

\* A text that comes from no payload.
RawText(t) ==
    /\ vpc = "idle"
    /\ vtext' = t
    /\ vpc' = "embedded"
    /\ UNCHANGED <<genUser, genNow, payload, tampered, extra, vres>>
    /\ UNCHANGED <<injVars, codecVars, againVars, proxyVars>>

\* A text supplied by a client that carries a payload built by the signature
\* rule over any timestamp string: the hash is unkeyed, so every party can
\* compute the signature field of any two fields.
SignedText(timestamp_str, user_id) ==
    /\ vpc = "idle"
    /\ payload' = timestamp_str \o <<124>> \o user_id \o <<124>>
                       \o Signature(timestamp_str, user_id)
    /\ vtext' = Embed(encode_watermark(text_to_binary(payload')))
    /\ vpc' = "embedded"
    /\ UNCHANGED <<genUser, genNow, tampered, extra, vres>>
    /\ UNCHANGED <<injVars, codecVars, againVars, proxyVars>>

\* One more marker character at the end of the text.
AppendMarker(c) ==
    /\ vpc = "embedded"
    /\ extra = 0
    /\ vtext' = Append(vtext, c)
    /\ extra' = 1
    /\ UNCHANGED <<genUser, genNow, payload, tampered, vres, vpc>>
    /\ UNCHANGED <<injVars, codecVars, againVars, proxyVars>>

\* verify_watermark_endpoint: result = verify_watermark(text)
Verify ==
    /\ vpc = "embedded"
    /\ vres' = verify_watermark(vtext)
    /\ vpc' = "verified"
    /\ UNCHANGED <<genUser, genNow, payload, tampered, extra, vtext>>
    /\ UNCHANGED <<injVars, codecVars, againVars, proxyVars>>

\* No second verification was made.
AgainIdle ==
    /\ vtext2 = <<>>
    /\ vres2 = [valid |-> FALSE, reason |-> "not called"]

\* A text with the marker characters of text in the same order: way 1 is
\* the text itself, way 2 drops its other characters and puts one of
\* '0', '1', '|', space, in turn, after every marker character.
Respell(text, way) ==
    LET found == SelectSeq(text, IsMarker)
        filler == <<48, 49, 124, 32>>
    IN  IF way = 1 THEN text
        ELSE [i \in 1..(2 * Len(found)) |->
                 IF i % 2 = 1 THEN found[(i + 1) \div 2]
                 ELSE filler[((i \div 2) % 4) + 1]]

RespellWays == 1..2

\* verify_watermark_endpoint called once more, on a text with the marker
\* characters of the first one.
VerifyAgain(way) ==
    /\ vpc = "verified"
    /\ extra = 0
    /\ vtext2' = Respell(vtext, way)
    /\ vres2' = verify_watermark(vtext2')
    /\ vpc' = "verified twice"
    /\ UNCHANGED <<genUser, genNow, payload, tampered, extra, vtext, vres>>
    /\ UNCHANGED <<injVars, codecVars, proxyVars>>

-----------------------------------------------------------------------------
(* Streaming proxy: chat_completions_proxy, process_stream_response.  An   *)
(* upstream chunk is a record: form tells how the loop classifies its      *)
(* bytes, content is the string at choices[0].delta.content, raw tells     *)
(* that the bytes are those received and not a chunk the loop rebuilt.     *)

\* injector = WatermarkInjector(encoded_watermark, interval=5)
ProxyInterval == 5

Responses == {1, 2}

\* Forms of a chunk that reaches a `yield chunk`: no "data:" prefix, the
\* [DONE] event, JSON that fails to parse, an object without "choices" (the
\* default [{}] applies), a delta with no or empty content.
PassForms == {"event", "done", "badjson", "nochoices", "nocontent"}

\* Forms of a chunk on which a statement of the loop raises: bytes that are
\* no UTF-8 (chunk.decode), an object whose "choices" is an empty list
\* (index [0]).
RaiseForms == {"undecodable", "emptychoices"}

PlainChunk(form) == [form |-> form, content |-> <<>>, raw |-> TRUE]
ContentChunk(text) == [form |-> "content", content |-> text, raw |-> TRUE]

\* Delta contents: 'aaaa' and 'a '.
ProxyTexts == {<<97, 97, 97, 97>>, <<97, 32>>}

UpstreamChunks ==
    {PlainChunk(f) : f \in PassForms \cup RaiseForms}
        \cup {ContentChunk(t) : t \in ProxyTexts}

PairChunks ==
    {PlainChunk("done"), PlainChunk("emptychoices")}
        \cup {ContentChunk(t) : t \in ProxyTexts}

\* chat_completions_proxy, step 3, and the first statement of
\* process_stream_response: the marker sequence of the request's user and
\* a new injector over it.  upstream, yielded, calls, outs, prevCount and
\* prevIdx are history; failed names the exception that ended the generator.
NewStream(user_id, now) ==
    [watermark |-> encode_watermark(text_to_binary(
                       generate_watermark_content(user_id, now))),
     interval |-> ProxyInterval,
     watermark_idx |-> 0,
     char_count |-> 0,
     failed |-> "none",
     upstream |-> <<>>,
     yielded |-> <<>>,
     calls |-> <<>>,
     outs |-> <<>>,
     prevCount |-> 0,
     prevIdx |-> 0]

\* The responses rs being served, the request of response r made by the
\* user 'a', 'b', ... at time 7.
InitProxy(rs) == streams = [r \in rs |-> NewStream(<<96 + r>>, 7)]

\* No response is being served.
ProxyIdle == streams = <<>>

\* The counter and cursor an inject call of response r works on, those of
\* every other response's injector in place of its own counter.
InjectorStateShared(strs, r) ==
    [char_count |-> strs[1].char_count,
     watermark_idx |-> strs[r].watermark_idx]

\* self.char_count and self.watermark_idx of the injector of response r.
InjectorState(strs, r) ==
    [char_count |-> strs[r].char_count,
     watermark_idx |-> strs[r].watermark_idx]

\* One iteration of `async for chunk in response.aiter_bytes()` in the
\* generator of response r.
ProcessChunk(r, chunk) ==
    /\ r \in DOMAIN streams
    /\ streams[r].failed = "none"
    /\ Len(streams[r].upstream) < MaxChunks
    /\ LET s == streams[r]
           seen == [s EXCEPT !.upstream = Append(@, chunk),
                             !.prevCount = s.char_count,
                             !.prevIdx = s.watermark_idx]
           passed == [seen EXCEPT !.yielded = Append(@, chunk)]
           st == InjectorState(streams, r)
           res == InjectResult(s.watermark, s.interval, st.char_count,
                               st.watermark_idx, chunk.content)
       IN  streams' = [streams EXCEPT ![r] =
               IF chunk.form = "undecodable"
               THEN [seen EXCEPT !.failed = "UnicodeDecodeError"]
               ELSE IF chunk.form = "event" THEN passed
               ELSE IF chunk.form = "done" THEN passed
               ELSE IF chunk.form = "badjson" THEN passed
               ELSE IF chunk.form = "emptychoices"
               THEN [seen EXCEPT !.failed = "IndexError"]
               ELSE IF chunk.content = <<>> THEN passed
               ELSE IF res.raised # "none"
               THEN [seen EXCEPT !.char_count = res.char_count,
                                 !.watermark_idx = res.watermark_idx,
                                 !.calls = Append(@, chunk.content),
                                 !.failed = res.raised]
               ELSE [seen EXCEPT !.char_count = res.char_count,
                                 !.watermark_idx = res.watermark_idx,
                                 !.calls = Append(@, chunk.content),
                                 !.outs = Append(@, res.out),
                                 !.yielded = Append(@,
                                     [form |-> "content", content |-> res.out,
                                      raw |-> FALSE])]]
    /\ UNCHANGED <<injVars, codecVars, verVars, againVars>>

-----------------------------------------------------------------------------
(* Specifications *)

\* One injector fed a sequence of fragments.
Init == InitInjector /\ CodecIdle /\ InitVerify /\ AgainIdle /\ ProxyIdle

Next == \E frag \in Fragments : Inject(frag)

Spec == Init /\ [][Next]_vars

\* The codec functions applied to bounded inputs.
CodecInit == InitCodec /\ InjectorIdle /\ InitVerify /\ AgainIdle /\ ProxyIdle

CodecNext ==
    \/ TextToBinary
    \/ EncodeWatermark
    \/ DecodeFromText
    \/ BinaryToText

SpecCodec == CodecInit /\ [][CodecNext]_vars

\* Payloads signed, altered, embedded and verified; texts verified directly.
VerifyInit == InitVerify /\ AgainIdle /\ InjectorIdle /\ CodecIdle /\ ProxyIdle

VerifyNext ==
    \/ \E user_id \in Users, now \in Times : Generate(user_id, now)
    \/ \E i \in TamperPositions, c \in TamperChars : Tamper(i, c)
    \/ EncodeAndEmbed
    \/ \E t \in RawTexts : RawText(t)
    \/ \E timestamp_str \in TimestampStrings, user_id \in Users :
           SignedText(timestamp_str, user_id)
    \/ \E c \in {ZERO_WIDTH_ZERO, ZERO_WIDTH_ONE} : AppendMarker(c)
    \/ Verify
    \/ \E way \in RespellWays : VerifyAgain(way)

SpecVerify == VerifyInit /\ [][VerifyNext]_vars

\* One streamed response over every sequence of upstream chunks.
StreamInit ==
    InitProxy({1}) /\ InjectorIdle /\ CodecIdle /\ InitVerify /\ AgainIdle

StreamNext == \E chunk \in UpstreamChunks : ProcessChunk(1, chunk)

SpecStream == StreamInit /\ [][StreamNext]_vars

\* Two streamed responses served concurrently, their iterations interleaved.
PairInit ==
    InitProxy(Responses) /\ InjectorIdle /\ CodecIdle /\ InitVerify
        /\ AgainIdle

PairNext == \E r \in Responses, chunk \in PairChunks : ProcessChunk(r, chunk)

SpecPair == PairInit /\ [][PairNext]_vars

-----------------------------------------------------------------------------
(* Helpers of the properties *)

Min(a, b) == IF a <= b THEN a ELSE b

NoMarkerIn(t) == \A i \in 1..Len(t) : ~IsMarker(t[i])

AllSpace(t) == \A i \in 1..Len(t) : IsSpace(t[i])

\* Number of non-whitespace characters of t.
Visible(t) == Cardinality({i \in 1..Len(t) : ~IsSpace(t[i])})

\* Index in t of its j-th non-whitespace character.
PosVisible(t, j) ==
    CHOOSE i \in 1..Len(t) : ~IsSpace(t[i]) /\ Visible(SubSeq(t, 1, i)) = j

NotMarker(c) == ~IsMarker(c)
StripMarkers(t) == SelectSeq(t, NotMarker)

-----------------------------------------------------------------------------
(* Injector properties *)

\* C1: for every interval N >= 1, the outputs of the inject calls made so far,
\* concatenated, equal the output of one inject call on the concatenated
\* fragments by a fresh injector with the same marker sequence and interval,
\* and the counter and cursor of the two injectors agree.
C1_ChunkBoundaryInvariance ==
    interval >= 1 =>
        LET whole == InjectResult(watermark, interval, 0, 0, fed)
        IN  /\ raised = "none"
            /\ emitted = whole.out
            /\ char_count = whole.char_count
            /\ watermark_idx = whole.watermark_idx

\* C1 witness: several calls with a fragment boundary in the middle of an
\* interval, the marker being inserted by a later call than the one that
\* started the interval, and whitespace among the characters fed.
C1_Witness ==
    /\ interval = 2
    /\ Len(lastFrag) < Len(fed)
    /\ prevCount = 1
    /\ watermark_idx = prevIdx + 1
    /\ \E i \in 1..Len(fed) : IsSpace(fed[i])
    /\ emitted # fed

\* C2: on an injector with interval >= 1, every marker character inject
\* inserted directly follows a non-whitespace input character, and a call on
\* a whitespace-only fragment returns the fragment and leaves counter and
\* cursor unchanged.
C2_WhitespaceNeverTriggers ==
    interval >= 1 =>
        /\ NoMarkerIn(fed) =>
               \A p \in 1..Len(emitted) :
                   IsMarker(emitted[p]) => p > 1 /\ ~IsSpace(emitted[p - 1])
        /\ AllSpace(lastFrag) =>
               /\ lastOut = lastFrag
               /\ char_count = prevCount
               /\ watermark_idx = prevIdx

\* C3: with interval N >= 1 and v non-whitespace characters fed, exactly
\* min(len(M), v div N) markers were emitted, the k-th being M[k-1] placed
\* directly after the (k*N)-th non-whitespace character.
C3_IntervalCorrectness ==
    (interval >= 1 /\ NoMarkerIn(fed)) =>
        LET n == Min(Len(watermark), Visible(fed) \div interval)
        IN  /\ Len(inserted) = n
            /\ Len(emitted) = Len(fed) + n
            /\ \A k \in 1..n :
                   emitted[PosVisible(fed, k * interval) + k] = watermark[k]

\* C4: no injector with an interval below 1 ever executes inject, and inject
\* never raises.
C4_IntervalRejected ==
    /\ called => interval >= 1
    /\ raised = "none"

\* C5: the cursor stays within 0..len(watermark); a call made with the cursor
\* at len(watermark) returns its fragment unchanged, raises nothing, leaves
\* the cursor where it is and advances the counter by the fragment's
\* non-whitespace characters.
C5_Exhaustion ==
    /\ 0 <= watermark_idx /\ watermark_idx <= Len(watermark)
    /\ (called /\ prevIdx = Len(watermark)) =>
           /\ raised = "none"
           /\ lastOut = lastFrag
           /\ watermark_idx = prevIdx
           /\ char_count = prevCount + Visible(lastFrag)

\* C6: a returned output of a fragment without marker codepoints, with its
\* marker codepoints deleted, is the fragment; the markers inserted over all
\* calls, in order, are the prefix of the marker sequence up to the cursor.
C6_VisiblePreservedMarkersInOrder ==
    /\ (called /\ raised = "none" /\ NoMarkerIn(lastFrag)) =>
           StripMarkers(lastOut) = lastFrag
    /\ inserted = SubSeq(watermark, 1, watermark_idx)

\* C6 witness: a call on a marker-free fragment with a visible character and
\* whitespace returned it with the second marker of the sequence inserted.
C6_Witness ==
    /\ Len(lastFrag) < Len(fed)
    /\ raised = "none"
    /\ NoMarkerIn(lastFrag)
    /\ Len(lastFrag) = 2
    /\ Len(lastOut) > Len(lastFrag)
    /\ watermark_idx = 2
    /\ prevIdx = 1

-----------------------------------------------------------------------------
(* Codec properties *)

\* C9: binary_to_text of a bit string whose length is not a multiple of 8
\* equals binary_to_text of its longest prefix of a multiple of 8 bits, and
\* has floor(len/8) characters.
C9_PartialGroupDropped ==
    (cpc \in {"back", "converted"} /\ Len(cScan) % 8 # 0) =>
        /\ cBack = binary_to_text(SubSeq(cScan, 1, 8 * (Len(cScan) \div 8)))
        /\ Len(cBack) = Len(cScan) \div 8

\* C10: for a payload string of characters with codepoints 0..255, the
\* marker sequence has 8 characters per payload character, the bits of each
\* character most significant first, and decoding it and converting the bits
\* back gives the payload string.
C10_CodecRoundTrip ==
    (cpc = "back" /\ \A i \in 1..Len(cText) : cText[i] <= 255) =>
        /\ cBack = cText
        /\ Len(cMarkers) = 8 * Len(cText)
        /\ \A i \in 1..Len(cText) : \A j \in 0..7 :
               cMarkers[8 * (i - 1) + j + 1] =
                   IF (cText[i] \div (2 ^ (7 - j))) % 2 = 1
                   THEN ZERO_WIDTH_ONE ELSE ZERO_WIDTH_ZERO

\* C10 witness: a two-character payload holding U+00FF and NUL went through
\* all four codec functions.
C10_Witness ==
    /\ cpc = "back"
    /\ cText = <<255, 0>>
    /\ Len(cMarkers) = 16
    /\ cBack = cText

-----------------------------------------------------------------------------
(* Verifier properties *)

\* C7 as claimed: after one character of the timestamp or subject field of a
\* signed payload (all codepoints at most 255) was replaced and the payload
\* re-encoded, verify_watermark returns SignatureMismatch.
C7_TamperDetected ==
    (vpc = "verified" /\ tampered /\ extra = 0
        /\ \A i \in 1..Len(payload) : payload[i] <= 255) =>
        Outcome(vres) = "SignatureMismatch"

\* C7 amended: with a replacement character of codepoint at most 255,
\* verify_watermark returns InvalidFormat when the altered timestamp and
\* subject fields hold a '|', else DecodeError when int() rejects the altered
\* timestamp, else SignatureMismatch carrying the altered fields and the
\* unchanged signature.
C7_TamperOutcome ==
    (vpc = "verified" /\ tampered /\ extra = 0
        /\ \A i \in 1..Len(payload) : payload[i] <= 255) =>
        IF \E i \in 1..Len(TsField \o UidField) : (TsField \o UidField)[i] = 124
        THEN Outcome(vres) = "InvalidFormat"
        ELSE IF ~PyInt(TsField).ok
        THEN Outcome(vres) = "DecodeError"
        ELSE /\ Outcome(vres) = "SignatureMismatch"
             /\ vres.data = [timestamp |-> PyInt(TsField).value,
                             user_id |-> UidField,
                             signature |-> SigField]

\* C7 witness: the subject field of a signed payload was altered and the
\* verification returned SignatureMismatch.
C7_Witness ==
    /\ vpc = "verified"
    /\ tampered
    /\ extra = 0
    /\ UidField # genUser
    /\ TsField = DecStr(genNow)
    /\ Outcome(vres) = "SignatureMismatch"

\* C8: every call of verify_watermark returns one of the five outcomes.
C8_VerifyNeverRaises ==
    vpc = "verified" =>
        Outcome(vres) \in {"Valid", "NotFound", "InvalidFormat",
                           "SignatureMismatch", "DecodeError"}

\* C8 witness: a text whose number of marker bits is no multiple of 8 and
\* whose timestamp field int() rejects was verified, giving DecodeError.
C8_Witness ==
    /\ vpc = "verified"
    /\ Len(decode_watermark_from_text(vtext)) % 8 # 0
    /\ ~PyInt(TsField).ok
    /\ Outcome(vres) = "DecodeError"


\* The fields of the string the marker bits of the verified text decode to.
DecodedParts == Split(binary_to_text(decode_watermark_from_text(vtext)), 124)

\* C11: when the marker bits decode to three fields and int() rejects the
\* first, verify_watermark returns DecodeError, whether or not the third
\* field is the signature of the first two; a Valid or SignatureMismatch
\* result carries the integer int() reads from the first field.
C11_NonIntegerTimestamp ==
    (vpc = "verified" /\ Len(DecodedParts) = 3) =>
        LET timestamp == PyInt(DecodedParts[1])
        IN  /\ ~timestamp.ok => Outcome(vres) = "DecodeError"
            /\ Outcome(vres) = "Valid" =>
                   timestamp.ok /\ vres.timestamp = timestamp.value
            /\ Outcome(vres) = "SignatureMismatch" =>
                   timestamp.ok /\ vres.data.timestamp = timestamp.value

\* C11 witness: a payload with the timestamp field '7.5' and the matching
\* signature field was verified, giving DecodeError.
C11_Witness ==
    /\ vpc = "verified"
    /\ extra = 0
    /\ Len(DecodedParts) = 3
    /\ DecodedParts[1] = <<55, 46, 53>>
    /\ DecodedParts[3] = Signature(DecodedParts[1], DecodedParts[2])
    /\ Outcome(vres) = "DecodeError"


\* A payload built by generate_watermark_content, encoded, embedded whole in
\* marker-free text and verified.
SignedRunVerified ==
    /\ vpc = "verified"
    /\ genNow \in Times
    /\ ~tampered
    /\ extra = 0

\* C12 as claimed: for every subject identifier of codepoints 0..255 and
\* every timestamp, the payload of generate_watermark_content, encoded and
\* embedded whole in marker-free text, verifies as Valid with that timestamp
\* and that subject identifier.
C12_SignedPayloadVerifies ==
    (SignedRunVerified /\ \A i \in 1..Len(genUser) : genUser[i] <= 255) =>
        vres = [valid |-> TRUE, timestamp |-> genNow, user_id |-> genUser]

\* C12 amended: the payload verifies as Valid with that timestamp and that
\* subject identifier when the subject identifier holds no '|'; when it
\* holds one, verify_watermark returns InvalidFormat.
C12_SignedPayloadOutcome ==
    (SignedRunVerified /\ \A i \in 1..Len(genUser) : genUser[i] <= 255) =>
        IF \E i \in 1..Len(genUser) : genUser[i] = 124
        THEN Outcome(vres) = "InvalidFormat"
        ELSE vres = [valid |-> TRUE, timestamp |-> genNow, user_id |-> genUser]

\* C12 witness: the payload signed for a subject identifier holding U+00E9
\* at a two-digit timestamp verified as Valid.
C12_Witness ==
    /\ SignedRunVerified
    /\ genNow = 17
    /\ \E i \in 1..Len(genUser) : genUser[i] = 233
    /\ StripMarkers(vtext) # <<>>
    /\ vres = [valid |-> TRUE, timestamp |-> 17, user_id |-> genUser]


\* Number of '|' characters of a string.
Separators(t) == Cardinality({i \in 1..Len(t) : t[i] = 124})

\* The string the marker bits of the verified text decode to.
DecodedText == binary_to_text(decode_watermark_from_text(vtext))

\* C13: when the text holds marker characters and their bits decode to a
\* string with fewer or more than two '|', verify_watermark returns
\* valid = False with the reason "Invalid watermark format.", and neither
\* sha256 nor int is called.
C13_MalformedStructure ==
    (vpc = "verified" /\ ~NoMarkerIn(vtext) /\ Separators(DecodedText) # 2) =>
        /\ vres = [valid |-> FALSE, reason |-> "Invalid watermark format."]
        /\ \A k \in 1..Len(VerifyCalls(vtext)) :
               VerifyCalls(vtext)[k] \notin {"sha256", "int"}

\* C13 witness: a payload of four fields, the first one not an integer,
\* gave InvalidFormat.
C13_Witness ==
    /\ vpc = "verified"
    /\ Separators(DecodedText) = 3
    /\ ~PyInt(DecodedParts[1]).ok
    /\ Outcome(vres) = "InvalidFormat"


\* C14: verify_watermark returns valid = False with the reason "No watermark
\* found." exactly when the text holds neither marker codepoint.
C14_NotFoundIffNoMarker ==
    vpc = "verified" =>
        ((vres = [valid |-> FALSE, reason |-> "No watermark found."])
            <=> NoMarkerIn(vtext))

\* C14 witness: a non-empty text without marker characters gave NotFound.
C14_Witness ==
    /\ vpc = "verified"
    /\ vtext # <<>>
    /\ NoMarkerIn(vtext)
    /\ Outcome(vres) = "NotFound"


\* C17: two texts with the same marker characters in the same order get the
\* same result from verify_watermark, whatever other characters they hold,
\* and so does the same text verified twice.
C17_OnlyMarkersMatter ==
    (vpc = "verified twice"
        /\ SelectSeq(vtext2, IsMarker) = SelectSeq(vtext, IsMarker)) =>
        vres2 = vres

\* C17 witness: a signed payload verified as Valid in a text and again in a
\* text with other characters between the same marker characters.
C17_Witness ==
    /\ vpc = "verified twice"
    /\ SelectSeq(vtext2, IsMarker) = SelectSeq(vtext, IsMarker)
    /\ StripMarkers(vtext2) # StripMarkers(vtext)
    /\ \E i \in 1..Len(vtext2) : vtext2[i] \in {48, 49, 124}
    /\ Outcome(vres) = "Valid"
    /\ vres2 = vres


-----------------------------------------------------------------------------
(* Proxy properties *)

\* The inject calls frags made one after the other, with nothing else
\* running, on the injector whose counter and cursor are in acc; acc.outs
\* collects the return values.
RECURSIVE RunAlone(_, _, _, _)
RunAlone(wm, iv, acc, frags) ==
    IF frags = <<>> THEN acc
    ELSE LET res == InjectResult(wm, iv, acc.char_count, acc.watermark_idx,
                                 Head(frags))
         IN  RunAlone(wm, iv,
                      [outs |-> Append(acc.outs, res.out),
                       char_count |-> res.char_count,
                       watermark_idx |-> res.watermark_idx],
                      Tail(frags))

\* C15: in every state reached by any interleaving of the iterations of two
\* responses, the return values of each injector's inject calls and its
\* counter and cursor are those of a new injector with the same marker
\* sequence and interval given the same fragments alone.
C15_InjectorIsolation ==
    \A r \in DOMAIN streams :
        LET s == streams[r]
            alone == RunAlone(s.watermark, s.interval,
                              [outs |-> <<>>, char_count |-> 0,
                               watermark_idx |-> 0],
                              s.calls)
        IN  /\ s.outs = alone.outs
            /\ s.char_count = alone.char_count
            /\ s.watermark_idx = alone.watermark_idx

\* C15 witness: both responses made two inject calls that brought their
\* counters to 5, the first one inserting two markers ('aaaa', then 'a ')
\* and the second one a single marker ('a ', then 'aaaa'); their marker
\* sequences differ.
C15_Witness ==
    /\ DOMAIN streams = Responses
    /\ Len(streams[1].calls) = 2
    /\ streams[1].char_count = 5
    /\ streams[1].watermark_idx = 2
    /\ Len(streams[2].calls) = 2
    /\ streams[2].char_count = 5
    /\ streams[2].watermark_idx = 1
    /\ streams[1].watermark # streams[2].watermark


\* C16: the generator of a response does not end with an exception and has
\* yielded one chunk for every upstream chunk it read, the k-th for the
\* k-th: a chunk without non-empty delta content as received, a chunk with
\* it rebuilt around the same content with markers inserted; the last
\* iteration moved the injector's counter and cursor only if its chunk had
\* non-empty delta content.
C16_StreamOrderAndCount ==
    \A r \in DOMAIN streams :
        LET s == streams[r]
            n == Len(s.upstream)
        IN  /\ s.failed = "none"
            /\ Len(s.yielded) = n
            /\ \A k \in 1..n :
                   IF s.upstream[k].form = "content"
                   THEN /\ s.yielded[k].form = "content"
                        /\ StripMarkers(s.yielded[k].content)
                               = s.upstream[k].content
                   ELSE s.yielded[k] = s.upstream[k]
            /\ (n > 0 /\ s.upstream[n].form # "content") =>
                   /\ s.char_count = s.prevCount
                   /\ s.watermark_idx = s.prevIdx

=============================================================================
